---- MODULE Spec2Model ----
(***************************************************************************)
(* Contact-list management of the create-buyer page                        *)
(* (src/app/dashboard/buyer-management/create-buyer/page.tsx).             *)
(*                                                                         *)
(* Strings are sequences of one-character strings, so that trim(),         *)
(* toLowerCase() and the e-mail regular expression are computed character  *)
(* by character as the JavaScript does.                                    *)
(***************************************************************************)
EXTENDS Integers, Sequences, FiniteSets, TLC

VARIABLES contacts, toast, call, nextContacts, sequential, handled, mutation

vars == <<contacts, toast, call, nextContacts, sequential, handled, mutation>>

(***************************************************************************)
(* Bounds of the model.                                                    *)
(***************************************************************************)
\* the page puts no limit on the list; the model stops adding at this length
\* (the inputs below hold three distinct names and three distinct addresses)
MaxContacts == 3

\* the most handlers that are run on the closures of one render
MaxBatch == 2

(***************************************************************************)
(* String primitives.                                                      *)
(***************************************************************************)
\* characters matched by \s in the regular expression and removed by trim()
WhiteSpace == {" ", "\t"}

\* String.prototype.trim: drop the leading white space ...
RECURSIVE trimStart(_)
trimStart(s) ==
    IF s = <<>> THEN <<>>
    ELSE IF Head(s) \in WhiteSpace THEN trimStart(Tail(s)) ELSE s

\* ... and the trailing white space
RECURSIVE trimEnd(_)
trimEnd(s) ==
    IF s = <<>> THEN <<>>
    ELSE IF s[Len(s)] \in WhiteSpace THEN trimEnd(SubSeq(s, 1, Len(s) - 1)) ELSE s

trim(s) == trimEnd(trimStart(s))

\* String.prototype.toLowerCase on the letters the model uses
toLowerChar(ch) ==
    CASE ch = "A" -> "a"
      [] ch = "B" -> "b"
      [] ch = "C" -> "c"
      [] OTHER -> ch

toLowerCase(s) == [i \in 1..Len(s) |-> toLowerChar(s[i])]

\* a character of the class [^\s@]
NotSpaceNorAt(ch) == ch \notin WhiteSpace /\ ch # "@"

\* every character of s[from..to] is in [^\s@], and there is at least one
Part(s, from, to) ==
    /\ from <= to
    /\ \A k \in from..to : NotSpaceNorAt(s[k])

\* /^[^\s@]+@[^\s@]+\.[^\s@]+$/.test(s): s splits as part @ part . part
emailRegex_test(s) ==
    \E i \in 1..Len(s) : \E j \in 1..Len(s) :
        /\ s[i] = "@"
        /\ s[j] = "."
        /\ Part(s, 1, i - 1)
        /\ Part(s, i + 1, j - 1)
        /\ Part(s, j + 1, Len(s))

(***************************************************************************)
(* Toast messages.                                                         *)
(***************************************************************************)
NoToast == "none"
NameRequired == "Contact name is required"
EmailRequired == "Contact email is required"
PhoneRequired == "Contact phone number is required"
InvalidEmail == "Please enter a valid email address"
DuplicateName == "Contact name already exists"
DuplicateEmail == "Contact email already exists"
ContactAdded == "Contact added successfully"
PrimaryUpdated == "Primary contact updated"

(***************************************************************************)
(* Inputs: what the user can type into the contact form and what the       *)
(* handlers can be called with.                                            *)
(***************************************************************************)
NameInputs ==
    { <<>>, <<" ">>, <<"A", "l">>, <<" ", "A", "l", " ">>, <<"a", "l">>,
      <<"B", "o">> }

EmailInputs ==
    { <<>>, <<" ">>,
      <<"a", "@", ".", "c">>,
      <<"a", "@", "x", ".", "c">>,
      <<"A", "@", "x", ".", "c">>,
      <<" ", "a", "@", "x", ".", "c">>,
      <<"b", "@", "x", ".", "c">>,
      <<"b", "@", "x", ".", "c", " ">>,
      <<"c", "@", "x", ".", "c">> }

PhoneInputs == { <<>>, <<" ">>, <<"1">>, <<" ", "1", " ">> }

\* isPrimary?: boolean -- absent (undefined) is <<>>, present is <<b>>
Undefined == <<>>
PrimaryInputs == { Undefined, <<TRUE>>, <<FALSE>> }

\* the ContactDetails the form can hold when Add Contact is clicked
ContactDetails ==
    [name : NameInputs, email : EmailInputs, phoneNumber : PhoneInputs,
     isPrimary : PrimaryInputs]

\* currentContact.isPrimary || false
OrFalse(v) == IF v = Undefined THEN FALSE ELSE v[1]

(***************************************************************************)
(* Array helper.                                                           *)
(***************************************************************************)
\* a plausible slip: the other entries keep their flag
clearPrimary_kept(list) == list

\* contacts.map((c) => ({ ...c, isPrimary: false }))
clearPrimary(list) == [i \in 1..Len(list) |-> [list[i] EXCEPT !.isPrimary = FALSE]]

(***************************************************************************)
(* addContact: the toast it raises and the list it leaves.                 *)
(***************************************************************************)
\* a plausible slip: the field is tested without trim()
isBlank_untrimmed(s) == s = <<>>

\* !field.trim(): the empty string is the only falsy string
isBlank(s) == trim(s) = <<>>

\* a plausible slip: the typed name is compared without trim()
duplicateName_untrimmed(currentContact, list) ==
    \E i \in 1..Len(list) : list[i].name = currentContact.name

\* contacts.some((c) => c.name === currentContact.name.trim())
duplicateName(currentContact, list) ==
    \E i \in 1..Len(list) : list[i].name = trim(currentContact.name)

\* a plausible slip: the addresses are compared without toLowerCase()
duplicateEmail_caseSensitive(currentContact, list) ==
    \E i \in 1..Len(list) : trim(list[i].email) = trim(currentContact.email)

\* contacts.some((c) => c.email.trim().toLowerCase() ===
\*                      currentContact.email.trim().toLowerCase())
duplicateEmail(currentContact, list) ==
    \E i \in 1..Len(list) :
        toLowerCase(trim(list[i].email)) = toLowerCase(trim(currentContact.email))

\* a plausible slip: the first contact keeps the flag that was requested
newContact_asRequested(currentContact, list) ==
    [name |-> trim(currentContact.name),
     email |-> trim(currentContact.email),
     phoneNumber |-> trim(currentContact.phoneNumber),
     isPrimary |-> OrFalse(currentContact.isPrimary)]

\* the entry built at lines 129-134, with the first-contact rule of 143-145
newContact(currentContact, list) ==
    [name |-> trim(currentContact.name),
     email |-> trim(currentContact.email),
     phoneNumber |-> trim(currentContact.phoneNumber),
     isPrimary |-> IF Len(list) = 0 THEN TRUE ELSE OrFalse(currentContact.isPrimary)]

\* let updatedContacts = contacts; if (newContact.isPrimary) updatedContacts = ...
updatedContacts(currentContact, list) ==
    IF OrFalse(currentContact.isPrimary) THEN clearPrimary(list) ELSE list

addContact(currentContact, list) ==
    LET fail(msg) == [toast |-> msg, contacts |-> list]
    IN  IF isBlank(currentContact.name) THEN fail(NameRequired)
        ELSE IF isBlank(currentContact.email) THEN fail(EmailRequired)
        ELSE IF isBlank(currentContact.phoneNumber) THEN fail(PhoneRequired)
        ELSE IF ~emailRegex_test(currentContact.email) THEN fail(InvalidEmail)
        ELSE IF duplicateName(currentContact, list) THEN fail(DuplicateName)
        ELSE IF duplicateEmail(currentContact, list) THEN fail(DuplicateEmail)
        ELSE [toast |-> ContactAdded,
              contacts |-> <<newContact(currentContact, list)>>
                               \o updatedContacts(currentContact, list)]

(***************************************************************************)
(* removeContact.                                                          *)
(***************************************************************************)
\* contacts.filter((c) => c.name !== nameToRemove)
filterOut(list, nameToRemove) ==
    LET keep(c) == c.name # nameToRemove IN SelectSeq(list, keep)

\* contacts.find((c) => c.name === nameToRemove)?.isPrimary
RECURSIVE removedIsPrimary(_, _)
removedIsPrimary(list, nameToRemove) ==
    IF list = <<>> THEN FALSE
    ELSE IF Head(list).name = nameToRemove THEN Head(list).isPrimary
    ELSE removedIsPrimary(Tail(list), nameToRemove)

\* a plausible slip: the last entry is promoted instead of the first
removeContact_promoteLast(nameToRemove, list) ==
    LET updated == filterOut(list, nameToRemove)
    IN  IF removedIsPrimary(list, nameToRemove) /\ Len(updated) > 0
        THEN [updated EXCEPT ![Len(updated)].isPrimary = TRUE]
        ELSE updated

\* a plausible slip: the head is promoted whatever was removed
removeContact_alwaysPromote(nameToRemove, list) ==
    LET updated == filterOut(list, nameToRemove)
    IN  IF Len(updated) > 0
        THEN [updated EXCEPT ![1].isPrimary = TRUE]
        ELSE updated

\* a plausible slip: nobody is promoted
removeContact_noPromotion(nameToRemove, list) == filterOut(list, nameToRemove)

removeContact(nameToRemove, list) ==
    LET updated == filterOut(list, nameToRemove)
    IN  IF removedIsPrimary(list, nameToRemove) /\ Len(updated) > 0
        THEN [updated EXCEPT ![1].isPrimary = TRUE]
        ELSE updated

\* The array the handler was given, as it reads once the handler has run.
\* filter() returns a new array holding the same entry objects, so the
\* assignment updatedContacts[0].isPrimary = true writes into the object that
\* the previous array still holds: its first entry with another name.
previousAfterRemove(nameToRemove, list) ==
    LET updated == filterOut(list, nameToRemove)
        first == CHOOSE i \in 1..Len(list) :
                    /\ list[i].name # nameToRemove
                    /\ \A k \in 1..(i - 1) : list[k].name = nameToRemove
    IN  IF removedIsPrimary(list, nameToRemove) /\ Len(updated) > 0
        THEN [list EXCEPT ![first].isPrimary = TRUE]
        ELSE list

(***************************************************************************)
(* setPrimaryContact.                                                      *)
(***************************************************************************)
\* a plausible slip: an unknown name is ignored
setPrimaryContact_ifFound(contactName, prev) ==
    IF \E i \in 1..Len(prev) : prev[i].name = contactName
    THEN [i \in 1..Len(prev) |-> [prev[i] EXCEPT !.isPrimary = (prev[i].name = contactName)]]
    ELSE prev

\* a plausible slip: the old primary is not cleared
setPrimaryContact_keepOld(contactName, prev) ==
    [i \in 1..Len(prev) |->
        [prev[i] EXCEPT !.isPrimary = (prev[i].isPrimary \/ prev[i].name = contactName)]]

\* prev.map((c) => ({ ...c, isPrimary: c.name === contactName }))
setPrimaryContact(contactName, prev) ==
    [i \in 1..Len(prev) |-> [prev[i] EXCEPT !.isPrimary = (prev[i].name = contactName)]]

(***************************************************************************)
(* The page as a state machine.  contacts is the list the current render   *)
(* and its handlers hold, toast the message on display, call the handler   *)
(* invocation being processed: its name, its arguments, the list it        *)
(* started from (pre) and what the array it started from holds once it has *)
(* run (old).  nextContacts is the value useState holds for the next       *)
(* render, handled the number of handlers run since the last render, and   *)
(* sequential the list that applying those handlers one after the other,   *)
(* each to the result of the one before, gives.  mutation is the state of  *)
(* createBuyerMutation.                                                    *)
(***************************************************************************)
NoContact == [name |-> <<>>, email |-> <<>>, phoneNumber |-> <<>>, isPrimary |-> Undefined]

NoForm ==
    [name |-> <<>>, abn |-> <<>>, officeAddress |-> <<>>, email |-> <<>>,
     phoneNumber |-> <<>>, accountNumber |-> <<>>]

NoCall ==
    [op |-> "none", currentContact |-> NoContact, name |-> <<>>, pre |-> <<>>,
     old |-> <<>>, formData |-> NoForm]

\* useMutation before the first mutate
Idle == [status |-> "idle", variables |-> [formData |-> NoForm, contacts |-> <<>>]]

Init ==
    /\ contacts = <<>>
    /\ toast = NoToast
    /\ call = NoCall
    /\ nextContacts = <<>>
    /\ sequential = <<>>
    /\ handled = 0
    /\ mutation = Idle

\* a click is a discrete event: React renders the component again before the
\* next event is handled, and the new render reads the value that was set
Rendered ==
    /\ nextContacts' = contacts'
    /\ sequential' = contacts'
    /\ handled' = 0

\* the handler addContact with the form holding currentContact, then the render
AddContactWith(currentContact) ==
    LET r == addContact(currentContact, contacts)
    IN  /\ call.op = "none"
        /\ Len(r.contacts) <= MaxContacts
        /\ contacts' = r.contacts
        /\ toast' = r.toast
        /\ call' = [NoCall EXCEPT !.op = "addContact",
                                  !.currentContact = currentContact,
                                  !.pre = contacts, !.old = contacts]
        /\ Rendered
        /\ UNCHANGED mutation

RemoveContactWith(nameToRemove) ==
    /\ call.op = "none"
    /\ contacts' = removeContact(nameToRemove, contacts)
    /\ toast' = toast
    /\ call' = [NoCall EXCEPT !.op = "removeContact", !.name = nameToRemove,
                              !.pre = contacts,
                              !.old = previousAfterRemove(nameToRemove, contacts)]
    /\ Rendered
    /\ UNCHANGED mutation

SetPrimaryContactWith(contactName) ==
    /\ call.op = "none"
    /\ contacts' = setPrimaryContact(contactName, contacts)
    /\ toast' = PrimaryUpdated
    /\ call' = [NoCall EXCEPT !.op = "setPrimaryContact", !.name = contactName,
                              !.pre = contacts, !.old = contacts]
    /\ Rendered
    /\ UNCHANGED mutation

AddContact == \E currentContact \in ContactDetails : AddContactWith(currentContact)

RemoveContact == \E nameToRemove \in NameInputs : RemoveContactWith(nameToRemove)

SetPrimaryContact == \E contactName \in NameInputs : SetPrimaryContactWith(contactName)

EventDone ==
    /\ call.op # "none"
    /\ call' = NoCall
    /\ toast' = NoToast
    /\ UNCHANGED <<contacts, nextContacts, sequential, handled, mutation>>

Next == AddContact \/ RemoveContact \/ SetPrimaryContact \/ EventDone

Spec == Init /\ [][Next]_vars

(***************************************************************************)
(* Handlers run on the closures of one render.  addContact and             *)
(* removeContact compute the new list from the contacts of their render    *)
(* and call setContacts(value); setPrimaryContact calls setContacts(prev   *)
(* => ...), which React applies to the value set last.  Render is the next *)
(* render of the component.                                                *)
(***************************************************************************)
\* well-formed contacts, enough to fill a list in several ways
BatchContactDetails ==
    { c \in ContactDetails :
        /\ c.phoneNumber = <<"1">>
        /\ c.isPrimary # Undefined
        /\ <<c.name, c.email>> \in
              { << <<"A", "l">>, <<"a", "@", "x", ".", "c">> >>,
                << <<"a", "l">>, <<"b", "@", "x", ".", "c">> >>,
                << <<"B", "o">>, <<"c", "@", "x", ".", "c">> >> } }

BatchNames == { <<"A", "l">>, <<"a", "l">>, <<"B", "o">> }

AddContactHandler ==
    \E currentContact \in BatchContactDetails :
        LET r == addContact(currentContact, contacts)
            ideal == addContact(currentContact, sequential)
        IN  /\ handled < MaxBatch
            /\ Len(r.contacts) <= MaxContacts
            /\ Len(ideal.contacts) <= MaxContacts
            /\ nextContacts' = IF r.toast = ContactAdded THEN r.contacts ELSE nextContacts
            /\ sequential' = ideal.contacts
            /\ toast' = r.toast
            /\ handled' = handled + 1
            /\ UNCHANGED <<contacts, call, mutation>>

RemoveContactHandler ==
    \E nameToRemove \in BatchNames :
        /\ handled < MaxBatch
        /\ nextContacts' = removeContact(nameToRemove, contacts)
        /\ sequential' = removeContact(nameToRemove, sequential)
        /\ handled' = handled + 1
        /\ UNCHANGED <<contacts, toast, call, mutation>>

SetPrimaryContactHandler ==
    \E contactName \in BatchNames :
        /\ handled < MaxBatch
        /\ nextContacts' = setPrimaryContact(contactName, nextContacts)
        /\ sequential' = setPrimaryContact(contactName, sequential)
        /\ toast' = PrimaryUpdated
        /\ handled' = handled + 1
        /\ UNCHANGED <<contacts, call, mutation>>

Render ==
    /\ handled > 0
    /\ contacts' = nextContacts
    /\ sequential' = nextContacts
    /\ handled' = 0
    /\ toast' = NoToast
    /\ UNCHANGED <<nextContacts, call, mutation>>

NextBatch ==
    AddContactHandler \/ RemoveContactHandler \/ SetPrimaryContactHandler \/ Render

SpecBatch == Init /\ [][NextBatch]_vars

(***************************************************************************)
(* handleSubmit and createBuyerMutation.                                   *)
(***************************************************************************)
AddAContact == "Please add at least one contact"
FillRequired == "Please fill in all required fields"
BuyerCreated == "Buyer created successfully!"
CreateFailed == "Failed to create buyer"

\* what the buyer fields can hold when the form is submitted (the account
\* number is not looked at and is left empty)
FormInputs ==
    [name : { <<>>, <<"N">> },
     abn : { <<>>, <<"1">> },
     officeAddress : { <<>>, <<"x">> },
     email : { <<>>, <<"a", "@", ".", "c">>, <<"a", "@", "x", ".", "c">> },
     phoneNumber : { <<>>, <<"1">> },
     accountNumber : { <<>> }]

\* a plausible slip: the contacts are left out of the payload
newBuyer_withoutContacts(formData, list) == [formData |-> formData, contacts |-> <<>>]

\* const newBuyer = { ...formData, contacts: contacts }
newBuyer(formData, list) == [formData |-> formData, contacts |-> list]

\* a plausible slip: the contact validation is missing
handleSubmit_noContactCheck(formData, list) ==
    LET stop(msg) == [toast |-> msg, mutate |-> FALSE, buyer |-> Idle.variables]
    IN  IF \/ formData.name = <<>>
           \/ formData.abn = <<>>
           \/ formData.officeAddress = <<>>
           \/ formData.email = <<>>
           \/ formData.phoneNumber = <<>>
        THEN stop(FillRequired)
        ELSE IF ~emailRegex_test(formData.email) THEN stop(InvalidEmail)
        ELSE [toast |-> NoToast, mutate |-> TRUE, buyer |-> newBuyer(formData, list)]

\* the toast handleSubmit raises, and the buyer it hands to mutate if it does
handleSubmit(formData, list) ==
    LET stop(msg) == [toast |-> msg, mutate |-> FALSE, buyer |-> Idle.variables]
    IN  IF Len(list) = 0 THEN stop(AddAContact)
        ELSE IF \/ formData.name = <<>>
                \/ formData.abn = <<>>
                \/ formData.officeAddress = <<>>
                \/ formData.email = <<>>
                \/ formData.phoneNumber = <<>>
        THEN stop(FillRequired)
        ELSE IF ~emailRegex_test(formData.email) THEN stop(InvalidEmail)
        ELSE [toast |-> NoToast, mutate |-> TRUE, buyer |-> newBuyer(formData, list)]

\* createBuyerMutation.isPending
isPending(m) == m.status = "pending"

\* a plausible slip: the remove button lacks the disabled attribute
removeDisabled_missing(m) == FALSE

\* disabled={createBuyerMutation.isPending} on the four controls
addContactDisabled(m) == isPending(m)
setPrimaryDisabled(m) == isPending(m)
removeDisabled(m) == isPending(m)
submitDisabled(m) == isPending(m)

(***************************************************************************)
(* The page driven through its controls: Add Contact with what was typed,  *)
(* the remove button of a listed entry, Set as Primary of a listed entry   *)
(* that is not primary, Create, and the callbacks of the request.          *)
(***************************************************************************)
\* what is typed into the contact form: well-formed contacts, a name typed
\* with blanks, a taken name, a taken address in another case, an address
\* typed with a blank, an empty name
PageContactDetails ==
    { c \in ContactDetails :
        /\ c.phoneNumber = <<"1">>
        /\ c.isPrimary # Undefined
        /\ <<c.name, c.email>> \in
              { << <<"A", "l">>, <<"a", "@", "x", ".", "c">> >>,
                << <<" ", "A", "l", " ">>, <<"b", "@", "x", ".", "c">> >>,
                << <<"a", "l">>, <<"b", "@", "x", ".", "c">> >>,
                << <<"B", "o">>, <<"c", "@", "x", ".", "c">> >>,
                << <<"B", "o">>, <<"A", "@", "x", ".", "c">> >>,
                << <<"B", "o">>, <<" ", "a", "@", "x", ".", "c">> >>,
                << <<>>, <<"a", "@", "x", ".", "c">> >> } }

ClickAddContact ==
    /\ ~addContactDisabled(mutation)
    /\ \E currentContact \in PageContactDetails : AddContactWith(currentContact)

ClickRemove ==
    /\ ~removeDisabled(mutation)
    /\ \E i \in 1..Len(contacts) : RemoveContactWith(contacts[i].name)

ClickSetPrimary ==
    /\ ~setPrimaryDisabled(mutation)
    /\ \E i \in 1..Len(contacts) :
          ~contacts[i].isPrimary /\ SetPrimaryContactWith(contacts[i].name)

\* handleSubmit with the buyer fields holding formData; mutation.variables is
\* the buyer as it was handed to mutate
HandleSubmitWith(formData) ==
    LET r == handleSubmit(formData, contacts)
    IN  /\ call.op = "none"
        /\ toast' = r.toast
        /\ mutation' = IF r.mutate
                       THEN [status |-> "pending", variables |-> r.buyer]
                       ELSE mutation
        /\ call' = [NoCall EXCEPT !.op = "handleSubmit", !.formData = formData,
                                  !.pre = contacts, !.old = contacts]
        /\ UNCHANGED <<contacts, nextContacts, sequential, handled>>

SubmitForm ==
    /\ ~submitDisabled(mutation)
    /\ \E formData \in FormInputs : HandleSubmitWith(formData)

OnSuccess ==
    /\ call.op = "none"
    /\ isPending(mutation)
    /\ mutation' = [mutation EXCEPT !.status = "success"]
    /\ toast' = BuyerCreated
    /\ call' = [NoCall EXCEPT !.op = "onSuccess", !.pre = contacts, !.old = contacts]
    /\ UNCHANGED <<contacts, nextContacts, sequential, handled>>

OnError ==
    /\ call.op = "none"
    /\ isPending(mutation)
    /\ mutation' = [mutation EXCEPT !.status = "error"]
    /\ toast' = CreateFailed
    /\ call' = [NoCall EXCEPT !.op = "onError", !.pre = contacts, !.old = contacts]
    /\ UNCHANGED <<contacts, nextContacts, sequential, handled>>

NextPage ==
    \/ ClickAddContact \/ ClickRemove \/ ClickSetPrimary \/ SubmitForm
    \/ OnSuccess \/ OnError \/ EventDone

SpecPage == Init /\ [][NextPage]_vars

(***************************************************************************)
(* Vocabulary of the properties.                                           *)
(***************************************************************************)
PrimaryCount(list) == Cardinality({i \in 1..Len(list) : list[i].isPrimary})

\* 0 primaries in the empty list, exactly 1 in a non-empty one
OnePrimaryIfAny(list) == PrimaryCount(list) = (IF Len(list) = 0 THEN 0 ELSE 1)

NameInList(n, list) == \E i \in 1..Len(list) : list[i].name = n

\* the handler that has just run
Added == call.op = "addContact" /\ toast = ContactAdded
AddCalled == call.op = "addContact"
RemoveCalled == call.op = "removeContact"
SetPrimaryCalled == call.op = "setPrimaryContact"

\* setPrimaryContact has just run with a name that no entry carried
StraySetPrimary == SetPrimaryCalled /\ ~NameInList(call.name, call.pre)

\* the three required fields of the candidate are non-empty after trimming
RequiredPresent ==
    /\ trim(call.currentContact.name) # <<>>
    /\ trim(call.currentContact.email) # <<>>
    /\ trim(call.currentContact.phoneNumber) # <<>>

\* an entry without its flag
Fields(c) == <<c.name, c.email, c.phoneNumber>>

(***************************************************************************)
(* C1 as stated: after any sequence of addContact, removeContact and       *)
(* setPrimary calls with any arguments, the list has 0 primaries when it   *)
(* is empty and exactly 1 when it is not.                                  *)
(***************************************************************************)
C1_OnePrimaryAlways == OnePrimaryIfAny(contacts)

(***************************************************************************)
(* C1 amended: there is never more than one primary; addContact,           *)
(* removeContact, and setPrimary with the name of an entry of the list,    *)
(* take a list with 0 (empty) or exactly 1 (non-empty) primaries to such a *)
(* list; setPrimary with a name that is not in the list leaves 0.          *)
(***************************************************************************)
C1_OnePrimaryUnlessStray ==
    /\ PrimaryCount(contacts) <= 1
    /\ (call.op # "none" /\ ~StraySetPrimary /\ OnePrimaryIfAny(call.pre))
          => OnePrimaryIfAny(contacts)
    /\ StraySetPrimary => PrimaryCount(contacts) = 0

\* the primary was removed from a list of three and another took its place
C1_Witness ==
    /\ RemoveCalled
    /\ Len(call.pre) = 3
    /\ removedIsPrimary(call.pre, call.name)
    /\ Len(contacts) = 2
    /\ PrimaryCount(contacts) = 1

(***************************************************************************)
(* C2: a successful addContact on the empty list yields a one-element list *)
(* whose entry is primary, whatever flag was requested.                    *)
(***************************************************************************)
C2_FirstIsPrimary ==
    (Added /\ call.pre = <<>>) => (Len(contacts) = 1 /\ contacts[1].isPrimary)

\* the first contact was added with isPrimary: false requested
C2_Witness ==
    /\ Added
    /\ call.pre = <<>>
    /\ call.currentContact.isPrimary = <<FALSE>>
    /\ Len(contacts) = 1

(***************************************************************************)
(* C3: in every reachable list the names are pairwise distinct and the     *)
(* addresses are pairwise distinct after trimming and lower-casing.        *)
(***************************************************************************)
C3_Unique ==
    \A i \in 1..Len(contacts) : \A j \in 1..Len(contacts) :
        i # j =>
            /\ contacts[i].name # contacts[j].name
            /\ toLowerCase(trim(contacts[i].email)) # toLowerCase(trim(contacts[j].email))

\* an address differing only in case from a stored one was refused
C3_Witness ==
    /\ AddCalled
    /\ toast = DuplicateEmail
    /\ \E i \in 1..Len(contacts) :
          /\ contacts[i].email # trim(call.currentContact.email)
          /\ toLowerCase(contacts[i].email) = toLowerCase(trim(call.currentContact.email))

(***************************************************************************)
(* C4: when the required-field and format checks pass, addContact with a   *)
(* candidate whose trimmed name is the name of an entry of the list fails  *)
(* with the duplicate-name error and leaves the list unchanged.            *)
(***************************************************************************)
C4_DuplicateName ==
    ( /\ AddCalled
      /\ RequiredPresent
      /\ emailRegex_test(call.currentContact.email)
      /\ NameInList(trim(call.currentContact.name), call.pre) )
    => (toast = DuplicateName /\ contacts = call.pre)

\* the name was typed with surrounding blanks and the address was taken too
C4_Witness ==
    /\ AddCalled
    /\ toast = DuplicateName
    /\ call.currentContact.name # trim(call.currentContact.name)
    /\ duplicateEmail(call.currentContact, call.pre)
    /\ Len(contacts) = 2

(***************************************************************************)
(* C5: addContact with a candidate (required fields present) whose name is *)
(* new and whose trimmed, lower-cased address is that of an entry of the   *)
(* list fails with the duplicate-email error and leaves the list unchanged.*)
(***************************************************************************)
C5_DuplicateEmail ==
    ( /\ AddCalled
      /\ RequiredPresent
      /\ ~NameInList(trim(call.currentContact.name), call.pre)
      /\ \E i \in 1..Len(call.pre) :
            toLowerCase(trim(call.pre[i].email))
                = toLowerCase(trim(call.currentContact.email)) )
    => (toast = DuplicateEmail /\ contacts = call.pre)

(***************************************************************************)
(* C6: with the required fields present, addContact fails with the         *)
(* invalid-email error exactly when the trimmed address does not match the *)
(* pattern, and then leaves the list unchanged; a valid address typed with *)
(* surrounding blanks is not rejected as invalid.                          *)
(***************************************************************************)
C6_InvalidEmailOnTrimmed ==
    (AddCalled /\ RequiredPresent)
    => /\ (toast = InvalidEmail) <=> ~emailRegex_test(trim(call.currentContact.email))
       /\ toast = InvalidEmail => contacts = call.pre

(***************************************************************************)
(* C7: addContact fails with name-required, email-required or              *)
(* phone-required when the name, the address or the phone is empty after   *)
(* trimming, tested in that order and before the format and duplicate      *)
(* checks; the list is then unchanged.                                     *)
(***************************************************************************)
C7_RequiredFields ==
    AddCalled =>
        LET cc == call.currentContact
            noName == trim(cc.name) = <<>>
            noEmail == trim(cc.email) = <<>>
            noPhone == trim(cc.phoneNumber) = <<>>
        IN  /\ (toast = NameRequired) <=> noName
            /\ (toast = EmailRequired) <=> (~noName /\ noEmail)
            /\ (toast = PhoneRequired) <=> (~noName /\ ~noEmail /\ noPhone)
            /\ (noName \/ noEmail \/ noPhone) => contacts = call.pre

\* a blank phone is reported although the address is malformed and the name taken
C7_Witness ==
    /\ AddCalled
    /\ toast = PhoneRequired
    /\ call.currentContact.phoneNumber = <<" ">>
    /\ ~emailRegex_test(trim(call.currentContact.email))
    /\ NameInList(trim(call.currentContact.name), call.pre)
    /\ contacts = call.pre

(***************************************************************************)
(* C8: a successful addContact returns the new entry followed by the       *)
(* previous entries in their previous order; requested as primary, the new *)
(* entry is the only primary; requested as non-primary on a non-empty      *)
(* list, the new entry is not primary and the others keep their flags.     *)
(***************************************************************************)
C8_Prepend ==
    Added =>
        LET cc == call.currentContact
            pre == call.pre
            requested == cc.isPrimary = <<TRUE>>
        IN  /\ Len(contacts) = Len(pre) + 1
            /\ Fields(contacts[1]) = <<trim(cc.name), trim(cc.email), trim(cc.phoneNumber)>>
            /\ \A i \in 1..Len(pre) : Fields(contacts[i + 1]) = Fields(pre[i])
            /\ requested =>
                  /\ contacts[1].isPrimary
                  /\ \A i \in 1..Len(pre) : ~contacts[i + 1].isPrimary
            /\ (~requested /\ pre # <<>>) =>
                  /\ ~contacts[1].isPrimary
                  /\ \A i \in 1..Len(pre) : contacts[i + 1].isPrimary = pre[i].isPrimary

\* a primary contact was put in front of two, the second of which was primary
C8_Witness ==
    /\ Added
    /\ call.currentContact.isPrimary = <<TRUE>>
    /\ Len(call.pre) = 2
    /\ call.pre[2].isPrimary
    /\ Len(contacts) = 3
    /\ contacts[1].isPrimary

(***************************************************************************)
(* C9: removeContact(name) removes every entry called name; if it removed  *)
(* the primary and entries remain, the head of the result is primary and   *)
(* is the only primary; an empty result has no primary.                    *)
(***************************************************************************)
C9_Remove ==
    RemoveCalled =>
        LET names(list) == [i \in 1..Len(list) |-> list[i].name]
            others(n) == n # call.name
            removedPrimary ==
                \E i \in 1..Len(call.pre) :
                    call.pre[i].name = call.name /\ call.pre[i].isPrimary
        IN  /\ names(contacts) = SelectSeq(names(call.pre), others)
            /\ (removedPrimary /\ contacts # <<>>) =>
                  (contacts[1].isPrimary /\ PrimaryCount(contacts) = 1)
            /\ contacts = <<>> => PrimaryCount(contacts) = 0

\* the primary in the middle of three was removed and the head took over
C9_Witness ==
    /\ RemoveCalled
    /\ Len(call.pre) = 3
    /\ call.pre[2].name = call.name
    /\ call.pre[2].isPrimary
    /\ Len(contacts) = 2
    /\ contacts[1].isPrimary
    /\ ~contacts[2].isPrimary

(***************************************************************************)
(* C10: setPrimary(name) returns the same entries in the same order, with  *)
(* isPrimary true on exactly the entry called name; when no entry is       *)
(* called name the result has no primary.                                  *)
(***************************************************************************)
C10_SetPrimary ==
    SetPrimaryCalled =>
        /\ Len(contacts) = Len(call.pre)
        /\ \A i \in 1..Len(contacts) :
              /\ Fields(contacts[i]) = Fields(call.pre[i])
              /\ contacts[i].isPrimary <=> (call.pre[i].name = call.name)
        /\ ~NameInList(call.name, call.pre) => PrimaryCount(contacts) = 0

\* the flag moved from the first of three entries to the last
C10_Witness ==
    /\ SetPrimaryCalled
    /\ Len(call.pre) = 3
    /\ call.pre[1].isPrimary
    /\ call.pre[3].name = call.name
    /\ contacts[3].isPrimary
    /\ ~contacts[1].isPrimary

(***************************************************************************)
(* C11 as stated: setPrimary with a name that matches no entry reports no  *)
(* failure and leaves the list as it was, flags included.                  *)
(***************************************************************************)
C11_StrayIsNoOp ==
    StraySetPrimary => (toast = PrimaryUpdated /\ contacts = call.pre)

(***************************************************************************)
(* C11 amended: setPrimary with a name that matches no entry reports no    *)
(* failure (it shows the success toast) and keeps the entries and their    *)
(* order, but clears every isPrimary flag; the list is as before only when *)
(* it had no primary.                                                      *)
(***************************************************************************)
C11_StrayClearsPrimary ==
    StraySetPrimary =>
        /\ toast = PrimaryUpdated
        /\ Len(contacts) = Len(call.pre)
        /\ \A i \in 1..Len(contacts) :
              Fields(contacts[i]) = Fields(call.pre[i]) /\ ~contacts[i].isPrimary
        /\ (contacts = call.pre) <=> (PrimaryCount(call.pre) = 0)

\* an unknown name was given while the second of three entries was primary
C11_Witness ==
    /\ StraySetPrimary
    /\ Len(call.pre) = 3
    /\ call.pre[2].isPrimary
    /\ call.name = <<" ", "A", "l", " ">>
    /\ PrimaryCount(contacts) = 0

(***************************************************************************)
(* C13: no operation mutates in place: once addContact, removeContact or   *)
(* setPrimary has returned, the list value that was current before the     *)
(* call still has the contents it had, isPrimary flags included.           *)
(***************************************************************************)
C13_PreviousListIntact == call.op # "none" => call.old = call.pre

(***************************************************************************)
(* C17: removing a non-primary entry leaves the fields, the flags and the  *)
(* relative order of the remaining entries unchanged, and removeContact    *)
(* with a name that matches no entry leaves the list unchanged.            *)
(***************************************************************************)
C17_RemoveFrame ==
    RemoveCalled =>
        LET others(c) == c.name # call.name
            removedPrimary ==
                \E i \in 1..Len(call.pre) :
                    call.pre[i].name = call.name /\ call.pre[i].isPrimary
        IN  /\ ~removedPrimary => contacts = SelectSeq(call.pre, others)
            /\ ~NameInList(call.name, call.pre) => contacts = call.pre

\* a non-primary entry left the head of a list whose last entry was primary
C17_Witness ==
    /\ RemoveCalled
    /\ Len(call.pre) = 3
    /\ call.pre[1].name = call.name
    /\ call.pre[3].isPrimary
    /\ contacts = Tail(call.pre)

SubmitCalled == call.op = "handleSubmit"

C12_Submit ==
    SubmitCalled =>
        LET fd == call.formData
            complete ==
                /\ fd.name # <<>> /\ fd.abn # <<>> /\ fd.officeAddress # <<>>
                /\ fd.email # <<>> /\ fd.phoneNumber # <<>>
        IN  /\ call.pre = <<>> => (~isPending(mutation) /\ toast = AddAContact)
            /\ isPending(mutation) <=>
                  (call.pre # <<>> /\ complete /\ emailRegex_test(fd.email))
            /\ isPending(mutation) =>
                  /\ mutation.variables.contacts = contacts
                  /\ contacts = call.pre
                  /\ mutation.variables.formData = fd

\* a buyer with three contacts was handed over
C12_Witness ==
    /\ SubmitCalled
    /\ isPending(mutation)
    /\ Len(mutation.variables.contacts) = 3
    /\ mutation.variables.formData.name = <<"N">>

(***************************************************************************)
(* C15: driven through the page, every buyer handed to the creation        *)
(* request has at least one contact and exactly one primary contact.       *)
(***************************************************************************)
C15_PayloadHasOnePrimary ==
    (SubmitCalled /\ isPending(mutation)) =>
        /\ Len(mutation.variables.contacts) >= 1
        /\ PrimaryCount(mutation.variables.contacts) = 1

\* the buyer handed over has two contacts, the second of which is primary
C15_Witness ==
    /\ SubmitCalled
    /\ isPending(mutation)
    /\ Len(contacts) = 2
    /\ contacts[2].isPrimary
    /\ ~contacts[1].isPrimary

(***************************************************************************)
(* C16: while the request is pending no handler runs, the contact list and *)
(* the submitted buyer do not change and no second request is issued; the  *)
(* list on the page is the submitted list, it still is after the error     *)
(* callback, and the form can then be submitted again.                     *)
(***************************************************************************)
C16_FrozenWhilePending ==
    [][ /\ isPending(mutation) =>
              /\ contacts' = contacts
              /\ mutation'.variables = mutation.variables
              /\ call'.op \in {"none", "onSuccess", "onError"}
        /\ isPending(mutation') => contacts' = mutation'.variables.contacts
        /\ call'.op = "onError" =>
              /\ contacts' = mutation'.variables.contacts
              /\ ~submitDisabled(mutation') ]_vars

\* the request for a buyer with two contacts has failed
C16_Witness ==
    /\ call.op = "onError"
    /\ mutation.status = "error"
    /\ Len(contacts) = 2
    /\ contacts = mutation.variables.contacts

====
